---- MODULE Spec2Model ----
(***************************************************************************)
(* Model of cardiac_service (segmentation/cardiac/service.py): the         *)
(* multi-atlas cardiac segmentation service.  One call of cardiac_service  *)
(* walks over data_objects; for every target it loads the atlases, crops   *)
(* the target around the lungs, registers every atlas (rigid, deformable), *)
(* computes weight maps, runs iterative atlas removal, splines vessels,    *)
(* fuses labels and pastes every mask back into the target geometry.       *)
(*                                                                         *)
(* Python tuples and lists are 0-based, TLA+ tuples 1-based:               *)
(* lung_bounding_box[i] of the source is lung_bounding_box[i+1] here.      *)
(* Voxel indices stay 0-based.  Thresholds are in hundredths (0.44 = 44).  *)
(* An image is a record [size, pix] with pix a function on Index(size).    *)
(* Volumes produced by collaborators whose voxels no step of the service   *)
(* reads (registered images, transforms, weight maps, probability maps)    *)
(* are tokens naming the call that produced them.                          *)
(***************************************************************************)
EXTENDS Integers, Sequences, FiniteSets, TLC

VARIABLES
    settings,               \* the settings argument
    data_objects,           \* the data_objects argument
    working_dir,            \* the working_dir argument
    atlas_dir,              \* files present under atlasPath
    pc,                     \* position of cardiac_service
    ti,                     \* index of data_object in data_objects
    k,                      \* index of the running for loop
    img,                    \* the target image
    atlas_set,              \* atlas id -> stage -> key -> volume
    lung_bounding_box,      \* result of AutoLungSegment
    crop_box,               \* (sag0, cor0, ax0, sag_d, cor_d, ax_d)
    img_crop,               \* CropImage(img, crop_box)
    segmented_vessel_dict,  \* result of vesselSplineGeneration
    combined_label_dict,    \* result of combine_labels
    template_im,            \* zero image in target geometry
    binary_struct,          \* mask pasted last
    paste_img,              \* result of sitk.Paste
    files,                  \* working_dir: path -> image written
    written,                \* sitk.WriteImage calls: <<path, target, name>>
    output_objects,         \* the list returned
    reg_calls,              \* registration calls made: <<target, atlas, stage>>
    iar_returned,           \* atlas ids of the set IAR returned last
    error                   \* exception that left cardiac_service, or ""

vars == <<settings, data_objects, working_dir, atlas_dir, pc, ti, k, img,
          atlas_set, lung_bounding_box, crop_box, img_crop,
          segmented_vessel_dict, combined_label_dict, template_im,
          binary_struct, paste_img, files, written, output_objects,
          reg_calls, iar_returned, error>>

(***************************************************************************)
(* Bounds of the model                                                     *)
(***************************************************************************)
MaxAtlases == 2
MaxTargets == 2
MaxDim == 3
MaxExpansion == 1
MaxPasteSag == 3

(***************************************************************************)
(* CARDIAC_SETTINGS_DEFAULTS                                               *)
(***************************************************************************)
DefaultCoronalExpansion == 15
DefaultAxialExpansion == 5
DefaultSagittalExpansion == 0
DefaultThreshold == 44

DefaultOutputFormat == <<"Auto_", ".nii.gz">>
DefaultAtlasIdList == <<"08", "11", "12", "13", "14">>
DefaultAtlasStructures == <<"WHOLEHEART", "LANTDESCARTERY">>
DefaultVesselNameList == <<"LANTDESCARTERY">>
AtlasPath == "/atlas"
NoGuide == "False"

(***************************************************************************)
(* Helpers                                                                 *)
(***************************************************************************)
Max(a, b) == IF a >= b THEN a ELSE b
Min(a, b) == IF a <= b THEN a ELSE b
Range(s) == {s[i] : i \in DOMAIN s}
EmptyDict == [x \in {} |-> 0]
NoImage == [size |-> <<0, 0, 0>>, pix |-> EmptyDict]

Index(size) == (0 .. size[1] - 1) \X (0 .. size[2] - 1) \X (0 .. size[3] - 1)

\* sitk.ReadImage of a target: its voxels are CT intensities.
ReadImage(data_object) ==
    [size |-> data_object.size,
     pix |-> [i \in Index(data_object.size) |-> data_object.fill]]

ImagePath(atlas_path, atlas_id) ==
    atlas_path \o "/Case_" \o atlas_id \o "/Images/Case_" \o atlas_id
        \o "_CROP.nii.gz"

StructPath(atlas_path, atlas_id, struct) ==
    atlas_path \o "/Case_" \o atlas_id \o "/Structures/Case_" \o atlas_id
        \o "_" \o struct \o "_CROP.nii.gz"

\* Faulty variant: the structure name is not substituted into the template.
MaskFileUnformatted(dir, output_format, structure_name) ==
    dir \o "/" \o output_format[1] \o output_format[2]

\* os.path.join(working_dir, output_format.format(structure_name))
MaskFile(dir, output_format, structure_name) ==
    dir \o "/" \o output_format[1] \o structure_name \o output_format[2]

(***************************************************************************)
(* Step 1 - automatic cropping                                             *)
(***************************************************************************)
\* AutoLungSegment: the bounding boxes (origin, size) of a non-empty lung
\* mask inside a volume of the given size.
LungBoundingBoxes(size) ==
    {b \in {<<x, y, z, dx, dy, dz>> :
                x \in 0 .. size[1] - 1, y \in 0 .. size[2] - 1,
                z \in 0 .. size[3] - 1,
                dx \in 1 .. size[1], dy \in 1 .. size[2], dz \in 1 .. size[3]} :
        /\ b[1] + b[4] <= size[1]
        /\ b[2] + b[5] <= size[2]
        /\ b[3] + b[6] <= size[3]}

\* Faulty variant: the origin is not clamped at 0.
CropBoxUnclampedOrigin(bb, lung, size) ==
    LET sag0 == bb[1] - lung.sagittalExpansion
        cor0 == bb[2] - lung.coronalExpansion
        ax0 == bb[3] - lung.axialExpansion
        sag_d == Min(bb[4] + lung.sagittalExpansion, size[1] - sag0)
        cor_d == Min(bb[5] + lung.coronalExpansion, size[2] - cor0)
        ax_d == Min(bb[6] + lung.axialExpansion, size[3] - ax0)
    IN  <<sag0, cor0, ax0, sag_d, cor_d, ax_d>>

\* The crop box of lines 179-188.
CropBox(bb, lung, size) ==
    LET sag0 == Max(bb[1] - lung.sagittalExpansion, 0)
        cor0 == Max(bb[2] - lung.coronalExpansion, 0)
        ax0 == Max(bb[3] - lung.axialExpansion, 0)
        sag_d == Min(bb[4] + lung.sagittalExpansion, size[1] - sag0)
        cor_d == Min(bb[5] + lung.coronalExpansion, size[2] - cor0)
        ax_d == Min(bb[6] + lung.axialExpansion, size[3] - ax0)
    IN  <<sag0, cor0, ax0, sag_d, cor_d, ax_d>>

\* CropImage: a pure index-space slice of the image at the box.
CropImage(image, box) ==
    LET size == <<box[4], box[5], box[6]>>
    IN  [size |-> size,
         pix |-> [i \in Index(size) |->
                     image.pix[<<i[1] + box[1], i[2] + box[2], i[3] + box[3]>>]]]

(***************************************************************************)
(* Step 6 - paste into the original image space                            *)
(***************************************************************************)
\* sitk.Cast((img * 0), sitk.sitkUInt8)
ZeroTemplate(image) ==
    [size |-> image.size,
     pix |-> [i \in Index(image.size) |-> (image.pix[i] * 0) % 256]]

InRegion(i, origin, size) ==
    \A a \in 1 .. 3 : origin[a] <= i[a] /\ i[a] < origin[a] + size[a]

\* Faulty variant: the mask is pasted at the template origin instead of the crop offset.
PasteAtOrigin(destination, source, source_size, source_index, destination_index) ==
    [size |-> destination.size,
     pix |-> [i \in Index(destination.size) |->
                 IF InRegion(i, <<0, 0, 0>>, source_size)
                 THEN source.pix[<<i[1] + source_index[1], i[2] + source_index[2],
                                   i[3] + source_index[3]>>]
                 ELSE destination.pix[i]]]

\* sitk.Paste: the destination with the source region copied to
\* destination_index.
Paste(destination, source, source_size, source_index, destination_index) ==
    [size |-> destination.size,
     pix |-> [i \in Index(destination.size) |->
                 IF InRegion(i, destination_index, source_size)
                 THEN source.pix[<<i[1] - destination_index[1] + source_index[1],
                                   i[2] - destination_index[2] + source_index[2],
                                   i[3] - destination_index[3] + source_index[3]>>]
                 ELSE destination.pix[i]]]

\* The binary masks a collaborator can return in the geometry of img_crop.
BinaryImages(size) ==
    {[size |-> size, pix |-> p] : p \in [Index(size) -> {0, 1}]}

(***************************************************************************)
(* Arguments of cardiac_service                                            *)
(***************************************************************************)
MkSettings(ids, structs, guide, min_best, vote, vessels, expansion) ==
    [outputFormat |-> DefaultOutputFormat,
     atlasSettings |-> [atlasIdList |-> ids, atlasStructures |-> structs,
                        atlasPath |-> AtlasPath],
     lungMaskSettings |-> [sagittalExpansion |-> expansion[1],
                           coronalExpansion |-> expansion[2],
                           axialExpansion |-> expansion[3]],
     rigidSettings |-> [guideStructure |-> guide],
     IARSettings |-> [minBestAtlases |-> min_best],
     \* a dict in insertion order: <<name, threshold>> pairs with distinct names
     labelFusionSettings |-> [optimalThreshold |-> vote],
     vesselSpliningSettings |-> [vesselNameList |-> vessels]]

DefaultExpansion ==
    <<DefaultSagittalExpansion, DefaultCoronalExpansion, DefaultAxialExpansion>>

AtlasIds == {DefaultAtlasIdList[i] : i \in 1 .. MaxAtlases}
StructureNames == Range(DefaultAtlasStructures)

\* The lists of 1 to n entries of S; an entry may be repeated.
ListsOf(S, n) == UNION {[1 .. m -> S] : m \in 1 .. n}

AtlasIdLists == ListsOf(AtlasIds, MaxAtlases)
AtlasStructureLists == {<<"WHOLEHEART">>, DefaultAtlasStructures}
GuideStructures == {NoGuide, "LANTDESCARTERY"}
OptimalThresholds ==
    {<<>>, <<<<"WHOLEHEART", DefaultThreshold>>>>,
     <<<<"WHOLEHEART", 150>>>>,
     <<<<"LANTDESCARTERY", DefaultThreshold>>>>}
VesselNameLists == {<<>>, DefaultVesselNameList}
MinBestChoices == 1 .. MaxAtlases

AllAtlasFiles ==
    {ImagePath(AtlasPath, a) : a \in AtlasIds}
        \cup {StructPath(AtlasPath, a, n) : a \in AtlasIds, n \in StructureNames}
AtlasDirs ==
    {AllAtlasFiles,
     AllAtlasFiles \ {ImagePath(AtlasPath, DefaultAtlasIdList[1])},
     AllAtlasFiles \ {StructPath(AtlasPath, DefaultAtlasIdList[1], "WHOLEHEART")}}

Target(n, size) ==
    [type |-> IF n % 2 = 0 THEN "DICOM" ELSE "FILE",
     path |-> "/data/target_" \o ToString(n),
     size |-> size,
     fill |-> 6 + n]

\* Two voxels in the first target, one in every other.
TargetSize(n) == IF n = 1 THEN <<2, 1, 1>> ELSE <<1, 1, 1>>
TargetLists == {[i \in 1 .. m |-> Target(i, TargetSize(i))] : m \in 1 .. MaxTargets}

InitLocals ==
    /\ working_dir = "/work"
    /\ pc = "read"
    /\ ti = 1
    /\ k = 1
    /\ img = NoImage
    /\ atlas_set = EmptyDict
    /\ lung_bounding_box = <<>>
    /\ crop_box = <<>>
    /\ img_crop = NoImage
    /\ segmented_vessel_dict = EmptyDict
    /\ combined_label_dict = EmptyDict
    /\ template_im = NoImage
    /\ binary_struct = NoImage
    /\ paste_img = NoImage
    /\ files = EmptyDict
    /\ written = <<>>
    /\ output_objects = <<>>
    /\ reg_calls = {}
    /\ iar_returned = {}
    /\ error = ""

\* Any configuration, small targets.
Init ==
    /\ settings \in
         {MkSettings(ids, structs, guide, min_best, vote, vessels, DefaultExpansion) :
             ids \in AtlasIdLists, structs \in AtlasStructureLists,
             guide \in GuideStructures, min_best \in MinBestChoices,
             vote \in OptimalThresholds, vessels \in VesselNameLists}
    /\ data_objects \in TargetLists
    /\ atlas_dir \in AtlasDirs
    /\ InitLocals

\* One target of any size, any expansion, one atlas.
InitCrop ==
    /\ settings \in
         {MkSettings(<<DefaultAtlasIdList[1]>>, DefaultAtlasStructures, NoGuide, 1,
                     <<<<"WHOLEHEART", DefaultThreshold>>>>, DefaultVesselNameList, e) :
             e \in (0 .. MaxExpansion) \X (0 .. MaxExpansion) \X (0 .. MaxExpansion)}
    /\ data_objects \in
         {<<Target(1, s)>> : s \in (1 .. MaxDim) \X (1 .. MaxDim) \X (1 .. MaxDim)}
    /\ atlas_dir = AllAtlasFiles
    /\ InitLocals

\* One flat target, one mask per run, one atlas.
InitPaste ==
    /\ settings \in
         {MkSettings(<<DefaultAtlasIdList[1]>>, DefaultAtlasStructures, NoGuide, 1,
                     c[1], c[2], <<e, 0, 0>>) :
             c \in {<<<<<<"WHOLEHEART", DefaultThreshold>>>>, <<>>>>,
                    <<<<>>, DefaultVesselNameList>>},
             e \in 0 .. MaxExpansion}
    /\ data_objects \in {<<Target(1, <<sx, 2, 1>>)>> : sx \in 1 .. MaxPasteSag}
    /\ atlas_dir = AllAtlasFiles
    /\ InitLocals

(***************************************************************************)
(* cardiac_service                                                         *)
(***************************************************************************)
data_object == data_objects[ti]
atlas_id_list == settings.atlasSettings.atlasIdList
atlas_structures == settings.atlasSettings.atlasStructures
atlas_path == settings.atlasSettings.atlasPath
guide_structure == settings.rigidSettings.guideStructure
min_best_atlases == settings.IARSettings.minBestAtlases
optimal_threshold == settings.labelFusionSettings.optimalThreshold
vote_structures == [i \in DOMAIN optimal_threshold |-> optimal_threshold[i][1]]
vessel_name_list == settings.vesselSpliningSettings.vesselNameList
output_format == settings.outputFormat

\* A volume returned by a collaborator, named by the call that made it; every
\* call returns a new volume (the pass of the loop tells them apart).
Vol(op, target, atlas, key, call) ==
    [op |-> op, target |-> target, atlas |-> atlas, key |-> key, call |-> call]

args == <<settings, data_objects, working_dir, atlas_dir>>
crop_vars == <<lung_bounding_box, crop_box, img_crop>>
fusion_vars == <<iar_returned, segmented_vessel_dict, combined_label_dict, template_im>>
out_vars == <<binary_struct, paste_img, files, written, output_objects>>

\* Lines 101-139: the next data object is read and the atlas set is emptied.
ReadTarget ==
    /\ pc = "read"
    /\ img' = ReadImage(data_object)
    /\ atlas_set' = EmptyDict
    /\ k' = 1
    /\ pc' = "load"
    /\ UNCHANGED <<args, ti, crop_vars, fusion_vars, out_vars, reg_calls, error>>

\* Lines 140-153: one pass of the loop reading an atlas image and its
\* structures; sitk.ReadImage raises on a missing file.
LoadAtlas ==
    /\ pc = "load"
    /\ IF k > Len(atlas_id_list)
       THEN /\ pc' = "crop_box"
            /\ UNCHANGED <<atlas_set, k, error>>
       ELSE LET atlas_id == atlas_id_list[k]
                needed == {ImagePath(atlas_path, atlas_id)}
                            \cup {StructPath(atlas_path, atlas_id, n) :
                                     n \in Range(atlas_structures)}
                original ==
                    ("CT Image" :> Vol("ReadImage", ti, atlas_id, "CT Image", k))
                      @@ [n \in Range(atlas_structures) |-> Vol("ReadImage", ti, atlas_id, n, k)]
            IN  IF needed \subseteq atlas_dir
                THEN /\ atlas_set' =
                          (atlas_id :> ("Original" :> original)) @@ atlas_set
                     /\ k' = k + 1
                     /\ UNCHANGED <<pc, error>>
                ELSE \* the entries read before the missing file stay
                     LET missing == {i \in DOMAIN atlas_structures :
                                        StructPath(atlas_path, atlas_id,
                                                   atlas_structures[i])
                                          \notin atlas_dir}
                         first == CHOOSE i \in missing : \A j \in missing : i <= j
                         partial ==
                             IF ImagePath(atlas_path, atlas_id) \notin atlas_dir
                             THEN EmptyDict
                             ELSE ("CT Image" :> original["CT Image"])
                                    @@ [n \in {atlas_structures[j] : j \in 1 .. first - 1}
                                          |-> original[n]]
                     IN  /\ atlas_set' =
                              (atlas_id :> ("Original" :> partial)) @@ atlas_set
                         /\ pc' = "raised"
                         /\ error' = "ReadImage: file not found"
                         /\ UNCHANGED k
    /\ UNCHANGED <<args, ti, img, crop_vars, fusion_vars, out_vars, reg_calls>>

\* Lines 163-188: the lung bounding box and the crop box.
LungCropBox ==
    /\ pc = "crop_box"
    /\ \E bb \in LungBoundingBoxes(img.size) :
          /\ lung_bounding_box' = bb
          /\ crop_box' = CropBox(bb, settings.lungMaskSettings, img.size)
    /\ pc' = "crop"
    /\ UNCHANGED <<args, ti, k, img, atlas_set, img_crop, fusion_vars, out_vars,
                   reg_calls, iar_returned, error>>

\* Lines 190-194: the target is cropped.
CropTarget ==
    /\ pc = "crop"
    /\ img_crop' = CropImage(img, crop_box)
    /\ k' = 1
    /\ pc' = "rir"
    /\ UNCHANGED <<args, ti, img, atlas_set, lung_bounding_box, crop_box,
                   fusion_vars, out_vars, reg_calls, error>>

\* Lines 210-239: one pass of the rigid registration loop.
RigidStep ==
    /\ pc = "rir"
    /\ IF k > Len(atlas_id_list)
       THEN /\ pc' = "dir"
            /\ k' = 1
            /\ UNCHANGED <<atlas_set, reg_calls, error>>
       ELSE LET atlas_id == atlas_id_list[k]
                original == atlas_set[atlas_id]["Original"]
                rir ==
                    ("CT Image" :> Vol("initial_registration", ti, atlas_id, "CT Image", k))
                      @@ ("Transform" :> Vol("initial_registration", ti, atlas_id, "Transform", k))
                      @@ [n \in Range(atlas_structures) |-> Vol("transform_propagation", ti, atlas_id, n, k)]
            IN  IF guide_structure # NoGuide /\ guide_structure \notin DOMAIN original
                THEN \* line 212 has emptied the RIR stage
                     /\ atlas_set' =
                          [atlas_set EXCEPT ![atlas_id] = ("RIR" :> EmptyDict) @@ @]
                     /\ pc' = "raised"
                     /\ error' = "KeyError: guideStructure"
                     /\ UNCHANGED <<reg_calls, k>>
                ELSE /\ reg_calls' = reg_calls \cup {<<ti, atlas_id, "RIR">>}
                     /\ \E ok \in BOOLEAN :
                          IF ok
                          THEN /\ atlas_set' =
                                    [atlas_set EXCEPT ![atlas_id] = ("RIR" :> rir) @@ @]
                               /\ k' = k + 1
                               /\ UNCHANGED <<pc, error>>
                          ELSE /\ atlas_set' =
                                    [atlas_set EXCEPT
                                       ![atlas_id] = ("RIR" :> EmptyDict) @@ @]
                               /\ pc' = "raised"
                               /\ error' = "initial_registration failed"
                               /\ UNCHANGED k
    /\ UNCHANGED <<args, ti, img, crop_vars, fusion_vars, out_vars>>

\* Lines 251-274: one pass of the deformable registration loop.
DeformStep ==
    /\ pc = "dir"
    /\ IF k > Len(atlas_id_list)
       THEN /\ pc' = "weight"
            /\ k' = 1
            /\ UNCHANGED <<atlas_set, reg_calls, error>>
       ELSE LET atlas_id == atlas_id_list[k]
                atlas_image == atlas_set[atlas_id]["RIR"]["CT Image"]
                dir ==
                    ("CT Image" :> Vol("demons_registration", ti, atlas_image.atlas, "CT Image", k))
                      @@ ("Transform" :> Vol("demons_registration", ti, atlas_image.atlas, "Transform", k))
                      @@ [n \in Range(atlas_structures) |-> Vol("apply_field", ti,
                                               atlas_set[atlas_id]["RIR"][n].atlas, n, k)]
            IN  /\ reg_calls' = reg_calls \cup {<<ti, atlas_id, "DIR">>}
                /\ \E ok \in BOOLEAN :
                     IF ok
                     THEN /\ atlas_set' =
                               [atlas_set EXCEPT ![atlas_id] = ("DIR" :> dir) @@ @]
                          /\ k' = k + 1
                          /\ UNCHANGED <<pc, error>>
                     ELSE \* line 253 has emptied the DIR stage
                          /\ atlas_set' =
                               [atlas_set EXCEPT ![atlas_id] = ("DIR" :> EmptyDict) @@ @]
                          /\ pc' = "raised"
                          /\ error' = "fast_symmetric_forces_demons_registration failed"
                          /\ UNCHANGED k
    /\ UNCHANGED <<args, ti, img, crop_vars, fusion_vars, out_vars>>

\* Faulty variant: the DIR stage is replaced by the weight map alone.
OnlyWeightMap(stage, weight_map) == "Weight Map" :> weight_map

\* Line 286: the weight map is added to the DIR stage.
WithWeightMap(stage, weight_map) == ("Weight Map" :> weight_map) @@ stage

\* Lines 283-286: one pass of the weight map loop.
WeightStep ==
    /\ pc = "weight"
    /\ IF k > Len(atlas_id_list)
       THEN /\ pc' = "iar"
            /\ UNCHANGED <<atlas_set, k>>
       ELSE LET atlas_id == atlas_id_list[k]
                atlas_image == atlas_set[atlas_id]["DIR"]["CT Image"]
                weight_map == Vol("compute_weight_map", ti, atlas_image.atlas, "Weight Map", k)
            IN  /\ atlas_set' =
                     [atlas_set EXCEPT ![atlas_id]["DIR"] = WithWeightMap(@, weight_map)]
                /\ k' = k + 1
                /\ UNCHANGED pc
    /\ UNCHANGED <<args, ti, img, crop_vars, fusion_vars, out_vars, reg_calls, error>>

\* IAR: the atlas ids that can be left; atlases are removed only while the
\* set keeps at least min_best atlases.
IARResults(ids, min_best) ==
    {S \in SUBSET ids : S = ids \/ Cardinality(S) >= min_best}

\* Faulty variant: the value returned by IAR is dropped.
AtlasSetIARDropped(before, returned) == before

\* Line 296: atlas_set is rebound to the value returned by IAR.
AtlasSetAfterIAR(before, returned) == returned

\* Lines 288-309: iterative atlas removal.
IARStep ==
    /\ pc = "iar"
    /\ \E S \in IARResults(DOMAIN atlas_set, min_best_atlases) :
          /\ iar_returned' = S
          /\ atlas_set' = AtlasSetAfterIAR(atlas_set, [a \in S |-> atlas_set[a]])
    /\ pc' = "vessel"
    /\ UNCHANGED <<args, ti, k, img, crop_vars, segmented_vessel_dict,
                   combined_label_dict, template_im, out_vars, reg_calls, error>>

\* A volume derived from the deformably registered labels of a set of atlases.
Fused(op, atlases, name) ==
    [op |-> op, target |-> ti, atlases |-> DOMAIN atlases, key |-> name]

\* Lines 316-329: vesselSplineGeneration reads the DIR label of every vessel
\* name in every atlas of the set.
VesselStep ==
    /\ pc = "vessel"
    /\ IF \A a \in DOMAIN atlas_set :
            Range(vessel_name_list) \subseteq DOMAIN atlas_set[a]["DIR"]
       THEN /\ segmented_vessel_dict' =
                 [n \in Range(vessel_name_list) |-> Fused("vesselSplineGeneration", atlas_set, n)]
            /\ pc' = "fusion"
            /\ UNCHANGED error
       ELSE /\ pc' = "raised"
            /\ error' = "KeyError: vessel structure"
            /\ UNCHANGED segmented_vessel_dict
    /\ UNCHANGED <<args, ti, k, img, atlas_set, crop_vars, iar_returned,
                   combined_label_dict, template_im, out_vars, reg_calls>>

\* Lines 334-344: combine_labels over atlas_structures, the zero template.
FusionStep ==
    /\ pc = "fusion"
    /\ combined_label_dict' =
          [n \in Range(atlas_structures) |-> Fused("combine_labels", atlas_set, n)]
    /\ template_im' = ZeroTemplate(img)
    /\ k' = 1
    /\ pc' = "paste_vote"
    /\ UNCHANGED <<args, ti, img, atlas_set, crop_vars, iar_returned,
                   segmented_vessel_dict, out_vars, reg_calls, error>>

\* DataObject(type="FILE", path=mask_file, parent=data_object)
OutputDataObject(mask_file, parent) ==
    [type |-> "FILE", path |-> mask_file, parent |-> parent]

\* Lines 351-361 and 365-375: the mask is pasted at the crop offset, written
\* to mask_file and reported.
WriteMask(structure_name, mask) ==
    LET pasted == Paste(template_im, mask, mask.size, <<0, 0, 0>>,
                        <<crop_box[1], crop_box[2], crop_box[3]>>)
        mask_file == MaskFile(working_dir, output_format, structure_name)
    IN  /\ binary_struct' = mask
        /\ paste_img' = pasted
        /\ files' = (mask_file :> pasted) @@ files
        /\ written' = Append(written, <<mask_file, ti, structure_name>>)
        /\ output_objects' =
              Append(output_objects, OutputDataObject(mask_file, data_object))

\* Lines 346-361: one pass of the loop over the vote structures;
\* process_probability_image returns a binary mask in img_crop geometry.
PasteVote ==
    /\ pc = "paste_vote"
    /\ IF k > Len(vote_structures)
       THEN /\ pc' = "paste_vessel"
            /\ k' = 1
            /\ UNCHANGED <<out_vars, error>>
       ELSE LET structure_name == vote_structures[k]
            IN  IF structure_name \in DOMAIN combined_label_dict
                THEN /\ \E mask \in BinaryImages(img_crop.size) :
                           WriteMask(structure_name, mask)
                     /\ k' = k + 1
                     /\ UNCHANGED <<pc, error>>
                ELSE /\ pc' = "raised"
                     /\ error' = "KeyError: vote structure"
                     /\ UNCHANGED <<out_vars, k>>
    /\ UNCHANGED <<args, ti, img, atlas_set, crop_vars, fusion_vars, reg_calls>>

\* Lines 363-375: one pass of the loop over the vessels.
PasteVessel ==
    /\ pc = "paste_vessel"
    /\ IF k > Len(vessel_name_list)
       THEN /\ pc' = "end"
            /\ UNCHANGED <<out_vars, k>>
       ELSE LET structure_name == vessel_name_list[k]
            IN  /\ \E mask \in BinaryImages(img_crop.size) :
                      WriteMask(structure_name, mask)
                /\ k' = k + 1
                /\ UNCHANGED pc
    /\ UNCHANGED <<args, ti, img, atlas_set, crop_vars, fusion_vars, reg_calls,
                   error>>

\* Lines 101 and 397: the next data object, or return output_objects.
NextTarget ==
    /\ pc = "end"
    /\ IF ti < Len(data_objects)
       THEN /\ ti' = ti + 1
            /\ pc' = "read"
       ELSE /\ pc' = "returned"
            /\ UNCHANGED ti
    /\ UNCHANGED <<args, k, img, atlas_set, crop_vars, fusion_vars, out_vars,
                   reg_calls, error>>

Next ==
    \/ ReadTarget
    \/ LoadAtlas
    \/ LungCropBox
    \/ CropTarget
    \/ RigidStep
    \/ DeformStep
    \/ WeightStep
    \/ IARStep
    \/ VesselStep
    \/ FusionStep
    \/ PasteVote
    \/ PasteVessel
    \/ NextTarget

\* The run up to the cropped target.
NextCrop ==
    \/ ReadTarget
    \/ LoadAtlas
    \/ LungCropBox
    \/ CropTarget

Spec == Init /\ [][Next]_vars
SpecCrop == InitCrop /\ [][NextCrop]_vars
SpecPaste == InitPaste /\ [][Next]_vars

(***************************************************************************)
(* Properties of the crop box (checked under SpecCrop)                     *)
(***************************************************************************)
Expansion ==
    <<settings.lungMaskSettings.sagittalExpansion,
      settings.lungMaskSettings.coronalExpansion,
      settings.lungMaskSettings.axialExpansion>>

\* C1: on every axis the crop box covers the lung bounding box expanded by
\* the margin on both sides, intersected with the volume: from
\* max(origin - margin, 0) to min(origin + size + margin, volume size).
C1_CropContainsExpandedRegion ==
    crop_box # <<>> =>
        \A a \in 1 .. 3 :
            LET lo == Max(lung_bounding_box[a] - Expansion[a], 0)
                hi == Min(lung_bounding_box[a] + lung_bounding_box[a + 3]
                            + Expansion[a], img.size[a])
            IN  /\ crop_box[a] <= lo
                /\ crop_box[a] + crop_box[a + 3] >= hi

\* C2: the crop box is clamped to the volume: on every axis its origin is
\* >= 0 and origin + size <= the volume size; with all expansions zero it
\* equals the lung bounding box.
C2_CropBoxClamped ==
    crop_box # <<>> =>
        /\ \A a \in 1 .. 3 :
              /\ crop_box[a] >= 0
              /\ crop_box[a] + crop_box[a + 3] <= img.size[a]
        /\ (Expansion = <<0, 0, 0>> => crop_box = lung_bounding_box)

\* A crop box whose sagittal origin and size were both cut by the clamps.
C2_Witness ==
    /\ pc = "rir"
    /\ lung_bounding_box[1] - Expansion[1] < 0
    /\ crop_box[1] = 0
    /\ lung_bounding_box[4] + Expansion[1] > img.size[1]
    /\ crop_box[4] = img.size[1]

(***************************************************************************)
(* Properties of the pasted masks (checked under SpecPaste)                *)
(***************************************************************************)
\* C3: the mask written last has the geometry of the target, is zero
\* outside [crop origin, crop origin + mask size), equals the cropped-space
\* mask inside it, and cropping it at the crop box gives the mask back.
C3_PasteExact ==
    written # <<>> =>
        LET origin == <<crop_box[1], crop_box[2], crop_box[3]>>
            out == files[written[Len(written)][1]]
        IN  /\ out = paste_img
            /\ out.size = img.size
            /\ DOMAIN out.pix = Index(img.size)
            /\ \A i \in Index(img.size) :
                  IF InRegion(i, origin, binary_struct.size)
                  THEN out.pix[i] =
                         binary_struct.pix[<<i[1] - origin[1], i[2] - origin[2],
                                             i[3] - origin[3]>>]
                  ELSE out.pix[i] = 0
            /\ CropImage(out, crop_box) = binary_struct

\* A mask with foreground and background pasted at a non-zero offset into a
\* larger target.
C3_Witness ==
    /\ written # <<>>
    /\ crop_box[1] > 0
    /\ crop_box[1] + crop_box[4] < img.size[1]
    /\ \E i, j \in Index(binary_struct.size) :
          binary_struct.pix[i] = 1 /\ binary_struct.pix[j] = 0

(***************************************************************************)
(* Properties of the run (checked under Spec)                              *)
(***************************************************************************)
RegistrationErrors ==
    {"initial_registration failed",
     "fast_symmetric_forces_demons_registration failed"}

\* C4: a failure of the rigid or deformable registration of one atlas is
\* caught for that atlas and the run goes on with the remaining atlases: no
\* registration failure ever ends cardiac_service.
C4_RegistrationFailureIsolated ==
    pc = "raised" => error \notin RegistrationErrors

\* C5: with fewer atlases configured than minBestAtlases the run ends in a
\* fatal error, and neither combine_labels nor vesselSplineGeneration is
\* ever given fewer than minBestAtlases atlases.
C5_TooFewAtlasesFatal ==
    /\ (Len(atlas_id_list) < min_best_atlases => pc \notin {"end", "returned"})
    /\ \A n \in DOMAIN combined_label_dict :
          Cardinality(combined_label_dict[n].atlases) >= min_best_atlases
    /\ \A n \in DOMAIN segmented_vessel_dict :
          Cardinality(segmented_vessel_dict[n].atlases) >= min_best_atlases

\* The configuration errors: a missing atlas file, a guide, vote or vessel
\* structure that is no atlas structure, a threshold outside [0, 1].
ConfigurationError ==
    \/ \E a \in Range(atlas_id_list) :
          \/ ImagePath(atlas_path, a) \notin atlas_dir
          \/ \E n \in Range(atlas_structures) :
                StructPath(atlas_path, a, n) \notin atlas_dir
    \/ guide_structure # NoGuide /\ guide_structure \notin Range(atlas_structures)
    \/ \E i \in DOMAIN optimal_threshold :
          \/ optimal_threshold[i][1] \notin Range(atlas_structures)
          \/ optimal_threshold[i][2] < 0
          \/ optimal_threshold[i][2] > 100
    \/ \E n \in Range(vessel_name_list) : n \notin Range(atlas_structures)

\* C6: under a configuration error no registration call is ever made.
C6_ConfigErrorBeforeRegistration ==
    ConfigurationError => reg_calls = {}

\* Indices of the outputs reported for the current target under a name.
OutputsNamed(n) ==
    {i \in DOMAIN output_objects :
        /\ output_objects[i].parent = data_object
        /\ output_objects[i].path = working_dir \o "/Auto_" \o n \o ".nii.gz"}

\* C7 as claimed: when a target is complete every atlas structure has exactly
\* one output, and no structure name is written or reported twice.
C7_OneOutputPerStructure ==
    pc = "end" =>
        /\ \A n \in Range(atlas_structures) : Cardinality(OutputsNamed(n)) = 1
        /\ \A n \in Range(vote_structures) \cup Range(vessel_name_list) :
              Cardinality(OutputsNamed(n)) = 1

\* C7 as amended: when a target is complete its outputs are, in this order,
\* one per key of optimalThreshold and then one per entry of vesselNameList,
\* each written to and reported at working_dir/Auto_<name>.nii.gz with the
\* target as parent; nothing else is written or reported for the target.
C7_OutputsPerVoteAndVessel ==
    pc = "end" =>
        LET names == vote_structures \o vessel_name_list
            base == (ti - 1) * Len(names)
        IN  /\ Len(output_objects) = ti * Len(names)
            /\ Len(written) = ti * Len(names)
            /\ \A j \in DOMAIN names :
                  LET path == working_dir \o "/Auto_" \o names[j] \o ".nii.gz"
                  IN  /\ output_objects[base + j] =
                           [type |-> "FILE", path |-> path, parent |-> data_object]
                      /\ written[base + j] = <<path, ti, names[j]>>
                      /\ path \in DOMAIN files

\* A complete target with a name listed for voting and as a vessel, reported
\* twice.
C7_Witness ==
    /\ pc = "end"
    /\ \E n \in Range(vote_structures) \cap Range(vessel_name_list) :
          Cardinality(OutputsNamed(n)) = 2

StageKeys == {"CT Image", "Transform"} \cup Range(atlas_structures)

StagesComplete(set) ==
    \A a \in Range(atlas_id_list) :
        /\ a \in DOMAIN set
        /\ DOMAIN set[a] = {"Original", "RIR", "DIR"}
        /\ Range(atlas_structures) \subseteq DOMAIN set[a]["Original"]
        /\ DOMAIN set[a]["RIR"] = StageKeys
        /\ DOMAIN set[a]["DIR"] = StageKeys \cup {"Weight Map"}

EntriesKept(old, new) ==
    \A a \in DOMAIN old \cap DOMAIN new :
        \A stage \in DOMAIN old[a] :
            /\ stage \in DOMAIN new[a]
            /\ \A key \in DOMAIN old[a][stage] :
                  /\ key \in DOMAIN new[a][stage]
                  /\ new[a][stage][key] = old[a][stage][key]

\* C8 as claimed: when IAR is invoked every configured atlas has the stages
\* Original, RIR and DIR, RIR and DIR hold a CT image, a transform and a
\* label per structure, DIR holds a weight map as well; within a target no
\* entry of the atlas set is overwritten or dropped, and an atlas record is
\* removed only by IAR.
C8_StagesCompleteAndKept ==
    [][/\ pc' = "iar" => StagesComplete(atlas_set')
       /\ pc # "read" =>
            /\ EntriesKept(atlas_set, atlas_set')
            /\ DOMAIN atlas_set \subseteq DOMAIN atlas_set' \/ pc = "iar"]_vars

NoRepeatedName(list) ==
    \A i, j \in DOMAIN list : i # j => list[i] # list[j]

NoRepeatedId ==
    NoRepeatedName(atlas_id_list) /\ NoRepeatedName(atlas_structures)

\* C8 as amended: the stages are complete when IAR is invoked and an atlas
\* record is removed only by IAR, for every atlasIdList; no entry of the
\* atlas set is overwritten or dropped within a target when atlasIdList
\* names no atlas twice and atlasStructures no structure twice.
C8_KeptWithoutRepeatedId ==
    [][/\ pc' = "iar" => StagesComplete(atlas_set')
       /\ pc # "read" =>
            /\ NoRepeatedId => EntriesKept(atlas_set, atlas_set')
            /\ DOMAIN atlas_set \subseteq DOMAIN atlas_set' \/ pc = "iar"]_vars

\* IAR was invoked on two different atlases with two structures and removed
\* a record.
C8_Witness ==
    /\ pc = "vessel"
    /\ Len(atlas_id_list) = 2
    /\ NoRepeatedId
    /\ Len(atlas_structures) = 2
    /\ Cardinality(DOMAIN atlas_set) = 1

HasStage(a, stage) == a \in DOMAIN atlas_set /\ stage \in DOMAIN atlas_set[a]

\* C9: for every atlas the rigid registration precedes the deformable one,
\* which precedes the weight map; the target is cropped before any
\* registration; all weight maps exist when IAR is called; after IAR the
\* atlas set is the one IAR returned, a subset of the configured list, and
\* vessel splining and label fusion read exactly that set.
C9_StageOrder ==
    /\ \A a \in Range(atlas_id_list) :
          /\ <<ti, a, "RIR">> \in reg_calls =>
                img_crop = CropImage(img, crop_box)
          /\ <<ti, a, "DIR">> \in reg_calls => <<ti, a, "RIR">> \in reg_calls
          \* at "read" atlas_set still is the set of the previous target
          /\ (pc # "read" /\ HasStage(a, "DIR")) =>
                HasStage(a, "RIR") /\ <<ti, a, "RIR">> \in reg_calls
          /\ (pc # "read" /\ HasStage(a, "DIR")
                /\ "Weight Map" \in DOMAIN atlas_set[a]["DIR"]) =>
                <<ti, a, "DIR">> \in reg_calls
    /\ pc = "iar" =>
          \A a \in Range(atlas_id_list) :
              HasStage(a, "DIR") /\ "Weight Map" \in DOMAIN atlas_set[a]["DIR"]
    /\ pc \in {"vessel", "fusion", "paste_vote", "paste_vessel", "end"} =>
          /\ DOMAIN atlas_set = iar_returned
          /\ iar_returned \subseteq Range(atlas_id_list)
    /\ pc \in {"fusion", "paste_vote", "paste_vessel", "end"} =>
          \A n \in Range(vessel_name_list) :
              /\ segmented_vessel_dict[n].target = ti
              /\ segmented_vessel_dict[n].atlases = iar_returned
    /\ pc \in {"paste_vote", "paste_vessel", "end"} =>
          \A n \in Range(atlas_structures) :
              /\ combined_label_dict[n].target = ti
              /\ combined_label_dict[n].atlases = iar_returned

\* A complete target whose masks were made from a set IAR had reduced.
C9_Witness ==
    /\ pc = "end"
    /\ iar_returned # Range(atlas_id_list)
    /\ written # <<>>
    /\ vessel_name_list # <<>>

\* Target that the file at a path was written for last.
LastWriter(path) ==
    LET writes == {i \in DOMAIN written : written[i][1] = path}
    IN  written[CHOOSE i \in writes : \A j \in writes : j <= i][2]

\* C10: when cardiac_service returns, every output DataObject refers to a
\* file that holds the mask of its own parent target, and outputs of
\* different targets refer to different files.
C10_TargetsDoNotInterfere ==
    pc = "returned" =>
        \A i \in DOMAIN output_objects :
            /\ data_objects[LastWriter(output_objects[i].path)]
                  = output_objects[i].parent
            /\ \A j \in DOMAIN output_objects :
                  output_objects[i].parent # output_objects[j].parent =>
                      output_objects[i].path # output_objects[j].path

====
